---- MODULE Spec2Model ----
(***************************************************************************)
(* Model of glance/common/signature_utils.py: the key-type registry, the   *)
(* certificate resolver and its validity-window check, the per-key-type    *)
(* verifier constructors, and the two entry points get_verifier and        *)
(* verify_signature.                                                       *)
(*                                                                         *)
(* Text that the code parses or encodes (the base64 signature, the salt    *)
(* length, the checksum) is a sequence of Unicode code points; names that  *)
(* the code only looks up in a table are strings.  The outcome of a call   *)
(* is a record: either                                                     *)
(* [kind |-> "ok", ...] or [kind |-> "raise", exc, cause, msg].            *)
(***************************************************************************)
EXTENDS Integers, Sequences, FiniteSets, TLC

VARIABLES
    registry,            \* SignatureKeyType._REGISTERED_TYPES
    regLog,              \* history: every register call so far, in order
    regCount,            \* history: register calls made after module initialization
    lookupRes,           \* result of the last direct SignatureKeyType.lookup
    vcCall,              \* last direct verify_certificate call and its result
    entry,               \* entry point of the call in progress
    pc,                  \* position of the call in progress
    image_properties,    \* the metadata mapping given to the call
    checksum_hash,       \* verify_signature's checksum argument (bytes once encoded)
    signature,           \* local: decoded signature
    hash_method,         \* local: resolved hash method
    signature_key_type,  \* local: descriptor returned by lookup
    signature_certificate_uuid, \* argument of get_public_key / get_certificate
    certificate,         \* local: the decoded X.509 certificate
    public_key,          \* local: certificate.public_key()
    padding,             \* local: algorithm/padding argument built by the constructor
    verifier,            \* local: result of the constructor call inside try
    outcome,             \* what the call returned or raised
    events,              \* history: the operations the call performed, in order
    kmResp,              \* environment: what keymgr_api.get answers for the uuid
    now,                 \* environment: datetime.utcnow() at the validity check
    backendResp,         \* environment: what public_key.verifier(...) does
    verifyResp,          \* environment: what verifier.verify() does
    prev,                \* outcome of get_verifier on the same metadata and environment
    other                \* the call of another thread, suspended between two steps

vars == <<registry, regLog, regCount, lookupRes, vcCall, entry, pc, image_properties,
          checksum_hash, signature, hash_method, signature_key_type,
          signature_certificate_uuid, certificate, public_key, padding, verifier, outcome, events, kmResp, now,
          backendResp, verifyResp, prev, other>>

callVars == <<entry, pc, image_properties, checksum_hash, signature, hash_method,
              signature_key_type, signature_certificate_uuid, certificate,
              public_key, padding, verifier,
              outcome, events, kmResp, now, backendResp, verifyResp, prev>>

(***************************************************************************)
(* Bounds of the model.                                                    *)
(***************************************************************************)
MaxTime == 4        \* instants 0..MaxTime for direct verify_certificate calls
MaxCertTime == 2    \* instants 0..MaxCertTime inside get_verifier / verify_signature
MaxRegs == 2        \* register calls after module initialization

(***************************************************************************)
(* Module constants.                                                       *)
(***************************************************************************)
HASH_METHODS == {"SHA-224", "SHA-256", "SHA-384", "SHA-512"}
RSA_PSS == "RSA-PSS"
DSA == "DSA"
ECC_CURVES == <<"sect571k1", "sect409k1", "sect571r1", "sect409r1",
                "secp521r1", "secp384r1">>
X_509 == "X.509"
CERTIFICATE_FORMATS == {X_509}
MASK_GEN_ALGORITHMS == {"MGF1"}
SIGNATURE == "img_signature"
HASH_METHOD == "img_signature_hash_method"
KEY_TYPE == "img_signature_key_type"
CERT_UUID == "img_signature_certificate_uuid"
OLD_SIGNATURE == "signature"
OLD_HASH_METHOD == "signature_hash_method"
OLD_KEY_TYPE == "signature_key_type"
OLD_CERT_UUID == "signature_certificate_uuid"
MASK_GEN_ALG == "mask_gen_algorithm"
PSS_SALT_LENGTH == "pss_salt_length"

(***************************************************************************)
(* Outcomes.                                                               *)
(***************************************************************************)
NoVal == [tag |-> "none"]
Ok(v) == [kind |-> "ok", val |-> v]
SVE(cause, msg) ==
    [kind |-> "raise", exc |-> "SignatureVerificationError", cause |-> cause, msg |-> msg]
Exc(class, msg) == [kind |-> "raise", exc |-> class, cause |-> "none", msg |-> msg]
None == [kind |-> "none"]

(***************************************************************************)
(* 'ECC_' + curve.name.upper() for the curves of ECC_CURVES.               *)
(***************************************************************************)
EccName(curve) ==
    CASE curve = "sect571k1" -> "ECC_SECT571K1"
      [] curve = "sect409k1" -> "ECC_SECT409K1"
      [] curve = "sect571r1" -> "ECC_SECT571R1"
      [] curve = "sect409r1" -> "ECC_SECT409R1"
      [] curve = "secp521r1" -> "ECC_SECP521R1"
      [] curve = "secp384r1" -> "ECC_SECP384R1"
      [] OTHER -> "ECC_"

(***************************************************************************)
(* SignatureKeyType: the registry is a function from the registered names  *)
(* to descriptors.                                                         *)
(***************************************************************************)
SignatureKeyType(name, public_key_type, create_verifier) ==
    [name |-> name, public_key_type |-> public_key_type,
     create_verifier |-> create_verifier]

\* variant: a registry that keeps the first registration of a name
registerFirstWins(reg, name, public_key_type, create_verifier) ==
    [n \in DOMAIN reg \cup {name} |->
        IF n \in DOMAIN reg THEN reg[n]
        ELSE SignatureKeyType(name, public_key_type, create_verifier)]

register(reg, name, public_key_type, create_verifier) ==
    [n \in DOMAIN reg \cup {name} |->
        IF n = name THEN SignatureKeyType(name, public_key_type, create_verifier)
        ELSE reg[n]]

lookup(reg, name) ==
    IF name \notin DOMAIN reg
    THEN SVE("UnknownKeyType", "Invalid signature key type")
    ELSE Ok(reg[name])

(***************************************************************************)
(* Module initialization, lines 223-231: the register calls made at import *)
(* time, in order.  supported is the set of curves for which the backend's *)
(* elliptic_curve_supported answers True.                                  *)
(***************************************************************************)
RegCall(name, public_key_type, create_verifier) ==
    [name |-> name, public_key_type |-> public_key_type,
     create_verifier |-> create_verifier]

RECURSIVE CurveRegs(_, _)
CurveRegs(i, supported) ==
    IF i > Len(ECC_CURVES) THEN <<>>
    ELSE (IF ECC_CURVES[i] \in supported
          THEN <<RegCall(EccName(ECC_CURVES[i]), "EllipticCurvePublicKey",
                         "create_verifier_for_ecc")>>
          ELSE <<>>) \o CurveRegs(i + 1, supported)

ModuleInitCalls(supported) ==
    <<RegCall(RSA_PSS, "RSAPublicKey", "create_verifier_for_pss"),
      RegCall(DSA, "DSAPublicKey", "create_verifier_for_dsa")>>
    \o CurveRegs(1, supported)

RECURSIVE ApplyRegs(_, _, _)
ApplyRegs(reg, calls, i) ==
    IF i > Len(calls) THEN reg
    ELSE ApplyRegs(register(reg, calls[i].name, calls[i].public_key_type,
                            calls[i].create_verifier), calls, i + 1)

EmptyRegistry == [n \in {} |-> NoVal]

ModuleInitRegistry(supported) == ApplyRegs(EmptyRegistry, ModuleInitCalls(supported), 1)

(***************************************************************************)
(* Text.  A str is a sequence of code points, 0..1114111; a lone surrogate *)
(* may occur in it, as in a Python str.                                    *)
(***************************************************************************)
IsAscii(c) == c < 128
IsSurrogate(c) == c >= 55296 /\ c <= 57343

(***************************************************************************)
(* base64.decode_as_bytes: base64.b64decode, i.e. binascii.a2b_base64 in   *)
(* its default, non-strict mode.  A str with a character outside ASCII is  *)
(* a ValueError.  Characters outside the alphabet are skipped, padding     *)
(* that completes a quad ends the parse, and leftover characters of an     *)
(* unfinished quad are an error (binascii.Error).                          *)
(***************************************************************************)
\* A-Z, a-z, 0-9, + and /
B64Val(c) ==
    CASE c >= 65 /\ c <= 90 -> c - 65
      [] c >= 97 /\ c <= 122 -> c - 71
      [] c >= 48 /\ c <= 57 -> c + 4
      [] c = 43 -> 62
      [] c = 47 -> 63
      [] OTHER -> 64

RECURSIVE A2B(_, _, _, _, _, _)
A2B(s, i, quad, left, pads, out) ==
    IF i > Len(s)
    THEN (IF quad # 0 THEN [ok |-> FALSE, bytes |-> <<>>]
          ELSE [ok |-> TRUE, bytes |-> out])
    ELSE IF s[i] = 61
    THEN (IF quad >= 2 /\ quad + pads + 1 >= 4
          THEN [ok |-> TRUE, bytes |-> out]
          ELSE A2B(s, i + 1, quad, left, IF quad >= 2 THEN pads + 1 ELSE pads, out))
    ELSE IF B64Val(s[i]) >= 64
    THEN A2B(s, i + 1, quad, left, pads, out)
    ELSE LET v == B64Val(s[i]) IN
         CASE quad = 0 -> A2B(s, i + 1, 1, v, 0, out)
           [] quad = 1 -> A2B(s, i + 1, 2, v % 16, 0,
                              Append(out, (left * 4 + v \div 16) % 256))
           [] quad = 2 -> A2B(s, i + 1, 3, v % 4, 0,
                              Append(out, (left * 16 + v \div 4) % 256))
           [] OTHER    -> A2B(s, i + 1, 0, 0, 0,
                              Append(out, (left * 64 + v) % 256))

\* exc is the exception class raised when ok is FALSE
decode_as_bytes(text) ==
    IF \E i \in 1..Len(text) : ~IsAscii(text[i])
    THEN [ok |-> FALSE, bytes |-> <<>>, exc |-> "ValueError"]
    ELSE LET r == A2B(text, 1, 0, 0, 0, <<>>) IN
         [ok |-> r.ok, bytes |-> r.bytes,
          exc |-> IF r.ok THEN "none" ELSE "binascii.Error"]

\* variant: a decoder that never rejects its input
get_signatureAcceptsAll(signature_data) ==
    Ok(decode_as_bytes(signature_data).bytes)

\* lines 390-397: the except clause names TypeError and binascii.Error
get_signature(signature_data) ==
    LET r == decode_as_bytes(signature_data) IN
    IF ~r.ok
    THEN (IF r.exc \in {"TypeError", "binascii.Error"}
          THEN SVE("InvalidSignatureEncoding",
                   "The signature data was not properly encoded using base64")
          ELSE Exc(r.exc, "string argument should contain only ASCII characters"))
    ELSE Ok(r.bytes)

get_hash_method(hash_method_name) ==
    IF hash_method_name \notin HASH_METHODS
    THEN SVE("UnsupportedAlgorithmName", "Invalid signature hash method")
    ELSE Ok(hash_method_name)

(***************************************************************************)
(* int(text) for a str: surrounding whitespace is stripped, one sign is    *)
(* allowed, and what remains must be a non-empty run of decimal digits, in *)
(* which single underscores may separate digits; anything else is a        *)
(* ValueError.  A decimal digit is a character of Unicode category Nd      *)
(* (Unicode 14.0, the tables of Python 3.11): the ten characters from each *)
(* zero of DecimalZeros.  Whitespace is tab, line feed, vertical tab, form *)
(* feed, carriage return, space and the spaces outside ASCII.  A text with *)
(* more digits than sys.int_info.default_max_str_digits (4300 since        *)
(* CPython 3.11; underscores, sign and whitespace do not count, leading    *)
(* zeros do) is a ValueError as well.                                      *)
(***************************************************************************)
MAX_STR_DIGITS == 4300

DecimalZeros ==
    {48, 1632, 1776, 1984, 2406, 2534, 2662, 2790, 2918, 3046,
     3174, 3302, 3430, 3558, 3664, 3792, 3872, 4160, 4240, 6112,
     6160, 6470, 6608, 6784, 6800, 6992, 7088, 7232, 7248, 42528,
     43216, 43264, 43472, 43504, 43600, 44016, 65296, 66720, 68912, 69734,
     69872, 69942, 70096, 70384, 70736, 70864, 71248, 71360, 71472, 71904,
     72016, 72784, 73040, 73120, 92768, 92864, 93008, 120782, 120792, 120802,
     120812, 120822, 123200, 123632, 125264, 130032}

DigitVal(c) ==
    IF c >= 48 /\ c <= 57 THEN c - 48
    ELSE IF c < 128 THEN -1
    ELSE IF \E z \in DecimalZeros : z <= c /\ c <= z + 9
    THEN c - (CHOOSE z \in DecimalZeros : z <= c /\ c <= z + 9)
    ELSE -1

Whitespace ==
    {9, 10, 11, 12, 13, 32, 133, 160, 5760} \cup (8192..8202)
    \cup {8232, 8233, 8239, 8287, 12288}

\* str.strip(): the text between its first and its last character that is not
\* whitespace
Strip(t) ==
    IF \A i \in 1..Len(t) : t[i] \in Whitespace THEN <<>>
    ELSE LET first == CHOOSE i \in 1..Len(t) :
                          /\ t[i] \notin Whitespace
                          /\ \A j \in 1..(i - 1) : t[j] \in Whitespace
             drop == CHOOSE k \in 0..(Len(t) - 1) :
                         /\ t[Len(t) - k] \notin Whitespace
                         /\ \A j \in 0..(k - 1) : t[Len(t) - j] \in Whitespace
         IN  SubSeq(t, first, Len(t) - drop)

\* an integer literal without its sign: digits, with single underscores between
\* digits only
IsLiteral(t) ==
    /\ t # <<>>
    /\ \A i \in 1..Len(t) : DigitVal(t[i]) >= 0 \/ t[i] = 95
    /\ t[1] # 95 /\ t[Len(t)] # 95
    /\ \A i \in 1..(Len(t) - 1) : ~(t[i] = 95 /\ t[i + 1] = 95)

\* the digits of a text, counted as int() counts them against the limit
NumDigits(t) == Cardinality({i \in 1..Len(t) : DigitVal(t[i]) >= 0})

NotUnderscore(c) == c # 95

\* the digits of a literal from its first digit that is not a zero
Significant(t) ==
    LET ds == SelectSeq(t, NotUnderscore)
    IN  IF \A i \in 1..Len(ds) : DigitVal(ds[i]) = 0 THEN <<>>
        ELSE SubSeq(ds,
                    CHOOSE i \in 1..Len(ds) :
                        /\ DigitVal(ds[i]) # 0
                        /\ \A j \in 1..(i - 1) : DigitVal(ds[j]) = 0,
                    Len(ds))

\* the number a sequence of digits denotes in base 10
RECURSIVE Digits(_, _)
Digits(t, acc) ==
    IF t = <<>> THEN acc
    ELSE Digits(Tail(t), acc * 10 + DigitVal(Head(t)))

int(text) ==
    LET t == Strip(text)
        neg == t # <<>> /\ Head(t) = 45
        body == IF t # <<>> /\ Head(t) \in {45, 43} THEN Tail(t) ELSE t
    IN  IF ~IsLiteral(body) \/ NumDigits(body) > MAX_STR_DIGITS
        THEN [ok |-> FALSE, val |-> 0]
        ELSE [ok |-> TRUE,
              val |-> IF neg THEN 0 - Digits(Significant(body), 0)
                      ELSE Digits(Significant(body), 0)]

(***************************************************************************)
(* Image properties: None, or a mapping d from property names to values.   *)
(***************************************************************************)
EmptyMap == [k \in {} |-> NoVal]
NoneProps == [is_none |-> TRUE, d |-> EmptyMap]

\* variant: a check satisfied by any one of the four keys
should_create_verifierAnyKey(props) ==
    /\ ~props.is_none
    /\ \/ CERT_UUID \in DOMAIN props.d
       \/ HASH_METHOD \in DOMAIN props.d
       \/ SIGNATURE \in DOMAIN props.d
       \/ KEY_TYPE \in DOMAIN props.d

should_create_verifier(props) ==
    /\ ~props.is_none
    /\ CERT_UUID \in DOMAIN props.d
    /\ HASH_METHOD \in DOMAIN props.d
    /\ SIGNATURE \in DOMAIN props.d
    /\ KEY_TYPE \in DOMAIN props.d

should_verify_signature(props) ==
    /\ ~props.is_none
    /\ OLD_CERT_UUID \in DOMAIN props.d
    /\ OLD_HASH_METHOD \in DOMAIN props.d
    /\ OLD_SIGNATURE \in DOMAIN props.d
    /\ OLD_KEY_TYPE \in DOMAIN props.d

(***************************************************************************)
(* encodeutils.to_utf8: bytes are returned as they are, a str is encoded   *)
(* with text.encode(utf-8), which raises UnicodeEncodeError on a lone      *)
(* surrogate; any other value is a TypeError.  A value carries its Python  *)
(* type.                                                                   *)
(***************************************************************************)
Str(t) == [type |-> "str", v |-> t]
Bytes(b) == [type |-> "bytes", v |-> b]
PyNone == [type |-> "NoneType", v |-> <<>>]

Utf8(c) ==
    IF c < 128 THEN <<c>>
    ELSE IF c < 2048 THEN <<192 + (c \div 64), 128 + (c % 64)>>
    ELSE IF c < 65536
    THEN <<224 + (c \div 4096), 128 + ((c \div 64) % 64), 128 + (c % 64)>>
    ELSE <<240 + (c \div 262144), 128 + ((c \div 4096) % 64),
           128 + ((c \div 64) % 64), 128 + (c % 64)>>

RECURSIVE encode(_)
encode(t) == IF t = <<>> THEN <<>> ELSE Utf8(Head(t)) \o encode(Tail(t))

to_utf8(text) ==
    IF text.type = "bytes" THEN Ok(text)
    ELSE IF text.type # "str" THEN Exc("TypeError", "bytes or Unicode expected")
    ELSE IF \E i \in 1..Len(text.v) : IsSurrogate(text.v[i])
    THEN Exc("UnicodeEncodeError", "surrogates not allowed")
    ELSE Ok(Bytes(encode(text.v)))

(***************************************************************************)
(* verify_certificate, lines 492-512.  t is datetime.utcnow().             *)
(***************************************************************************)
\* variants: the two comparisons in the other order; no comparison at all
verify_certificateExpiredFirst(cert, t) ==
    IF t > cert.not_valid_after
    THEN SVE("CertificateExpired", "Certificate is not valid after")
    ELSE IF t < cert.not_valid_before
    THEN SVE("CertificateNotYetValid", "Certificate is not valid before")
    ELSE Ok(NoVal)

verify_certificateAcceptsAll(cert, t) == Ok(NoVal)

verify_certificate(cert, t) ==
    IF t < cert.not_valid_before
    THEN SVE("CertificateNotYetValid", "Certificate is not valid before")
    ELSE IF t > cert.not_valid_after
    THEN SVE("CertificateExpired", "Certificate is not valid after")
    ELSE Ok(NoVal)

(***************************************************************************)
(* get_certificate, lines 471-484: the format check and the DER decoding   *)
(* of what the key manager returned.  x509.load_der_x509_certificate       *)
(* raises ValueError on bytes that are not a DER certificate.              *)
(***************************************************************************)
X509Certificate(cert) ==
    [not_valid_before |-> cert.not_valid_before,
     not_valid_after |-> cert.not_valid_after,
     key |-> cert.key]

load_der_x509_certificate(cert) ==
    IF ~cert.der_ok
    THEN Exc("ValueError", "Unable to load certificate")
    ELSE Ok(X509Certificate(cert))

load_certificate(cert) ==
    IF cert.format \notin CERTIFICATE_FORMATS
    THEN SVE("CertificateFormatInvalid", "Invalid certificate format")
    ELSE IF cert.format = X_509
    THEN load_der_x509_certificate(cert)
    ELSE SVE("CertificateFormatInvalid", "Certificate format not supported")

(***************************************************************************)
(* get_public_key, lines 431-440: the type check of the derived key.  A    *)
(* key object implements exactly one of the three public-key interfaces.   *)
(***************************************************************************)
isinstance(key, public_key_type) == key = public_key_type

\* variant: no type check of the derived key
check_public_keyAcceptsAll(key, key_type) == Ok(key)

check_public_key(key, key_type) ==
    IF ~isinstance(key, key_type.public_key_type)
    THEN SVE("KeyTypeMismatch", "Invalid public key type for signature key type")
    ELSE Ok(key)

(***************************************************************************)
(* The constructors, lines 144-219, up to the call of public_key.verifier: *)
(* the algorithm or padding argument each one builds.                      *)
(***************************************************************************)
MAX_LENGTH == [max |-> TRUE, n |-> 0]
SaltOf(n) == [max |-> FALSE, n |-> n]
NoSalt == [max |-> FALSE, n |-> 0]

Padding(scheme, mgf_alg, mgf_hash, salt, hash) ==
    [scheme |-> scheme, mgf_alg |-> mgf_alg, mgf_hash |-> mgf_hash,
     salt_length |-> salt, hash |-> hash]
NoPadding == Padding("none", "none", "none", NoSalt, "none")

\* padding.PSS.__init__: a negative salt length is a ValueError
padding_PSS(pad) ==
    IF ~pad.salt_length.max /\ pad.salt_length.n < 0
    THEN Exc("ValueError", "salt_length must be zero or greater.")
    ELSE Ok(pad)

\* lines 157-178: the arguments create_verifier_for_pss chooses for padding.PSS
\* variant: the salt length text is validated but never used
pss_paramsIgnoresSalt(hash, props) ==
    IF MASK_GEN_ALG \in DOMAIN props /\ props[MASK_GEN_ALG] \notin MASK_GEN_ALGORITHMS
    THEN SVE("UnsupportedAlgorithmName", "Invalid mask_gen_algorithm")
    ELSE IF PSS_SALT_LENGTH \in DOMAIN props /\ ~int(props[PSS_SALT_LENGTH]).ok
    THEN SVE("InvalidParameterValue", "Invalid pss_salt_length")
    ELSE Ok(Padding("PSS", "MGF1", hash, MAX_LENGTH, hash))

pss_params(hash, props) ==
    IF MASK_GEN_ALG \in DOMAIN props /\ props[MASK_GEN_ALG] \notin MASK_GEN_ALGORITHMS
    THEN SVE("UnsupportedAlgorithmName", "Invalid mask_gen_algorithm")
    ELSE LET mgf_alg == IF MASK_GEN_ALG \in DOMAIN props
                        THEN props[MASK_GEN_ALG] ELSE "MGF1"
         IN  IF PSS_SALT_LENGTH \in DOMAIN props /\ ~int(props[PSS_SALT_LENGTH]).ok
             THEN SVE("InvalidParameterValue", "Invalid pss_salt_length")
             ELSE Ok(Padding("PSS", mgf_alg, hash,
                             IF PSS_SALT_LENGTH \in DOMAIN props
                             THEN SaltOf(int(props[PSS_SALT_LENGTH]).val)
                             ELSE MAX_LENGTH,
                             hash))

\* line 201: ec.ECDSA(hash_method)
ecc_params(hash, props) == Ok(Padding("ECDSA", "none", "none", NoSalt, hash))

\* line 218: the hash method alone
dsa_params(hash, props) == Ok(Padding("DSA", "none", "none", NoSalt, hash))

(***************************************************************************)
(* public_key.verifier(signature, ...), lines 181-185, 199-202, 216-219.   *)
(* The backend either builds a verification context, refuses the algorithm *)
(* (UnsupportedAlgorithm), or, for a key object that is not a real backend *)
(* key, hands back a false value.                                          *)
(***************************************************************************)
Verifier(sig, key, pad, truthy) ==
    [signature |-> sig, key |-> key, padding |-> pad, truthy |-> truthy, data |-> <<>>]

public_key_verifier(resp, sig, key, pad) ==
    CASE resp = "unsupported" -> Exc("UnsupportedAlgorithm", "unsupported algorithm")
      [] resp = "falsy" -> Ok(Verifier(<<>>, "none", NoPadding, FALSE))
      [] OTHER -> Ok(Verifier(sig, key, pad, TRUE))

(***************************************************************************)
(* get_verifier lines 274-295 and verify_signature lines 350-365, 375-379: *)
(* what the entry point makes of the constructor's result.                 *)
(***************************************************************************)
gv_handle(ctor) ==
    IF ctor.kind = "raise"
    THEN (IF ctor.exc = "UnsupportedAlgorithm"
          THEN SVE("UnsupportedAlgorithmName",
                   "Unable to verify signature since the algorithm is unsupported")
          ELSE ctor)
    ELSE IF ctor.val.truthy THEN ctor
    ELSE SVE("VerifierCreationFailed", "Error occurred while creating the verifier")

\* variant: verify_signature without the except clause of lines 355-363
vs_handlePropagates(ctor) ==
    IF ctor.kind = "raise" THEN ctor
    ELSE IF ctor.val.truthy THEN ctor
    ELSE SVE("VerifierCreationFailed", "Error occurred while verifying the signature")

vs_handle(ctor) ==
    IF ctor.kind = "raise"
    THEN (IF ctor.exc = "UnsupportedAlgorithm"
          THEN SVE("UnsupportedAlgorithmName",
                   "Unable to verify signature since the algorithm is unsupported")
          ELSE ctor)
    ELSE IF ctor.val.truthy THEN ctor
    ELSE SVE("VerifierCreationFailed", "Error occurred while verifying the signature")

(***************************************************************************)
(* verify_signature lines 367-374: verifier.verify() either returns or     *)
(* raises InvalidSignature.                                                *)
(***************************************************************************)
vs_verify(resp) ==
    IF resp = "InvalidSignature"
    THEN SVE("SignatureMismatch", "Signature verification failed.")
    ELSE Ok(TRUE)

(***************************************************************************)
(* The two entry points as functions of their arguments, of the registry   *)
(* they read and of the environment's answers: the statements of lines     *)
(* 250-295, 323-379 and 416-489 executed one after the other by a single   *)
(* caller.  km is what keymgr_api.get answers, t is datetime.utcnow(), b   *)
(* is what public_key.verifier does and v is what verifier.verify() does.  *)
(***************************************************************************)
\* lines 443-489
get_certificate(km, t) ==
    IF km.kind = "api_error"
    THEN Exc(km.err, "key_manager.API() failed")
    ELSE IF km.kind = "error"
    THEN SVE("CertificateRetrievalFailed", "Unable to retrieve certificate with ID")
    ELSE LET c == load_certificate(km) IN
         IF c.kind = "raise" THEN c
         ELSE LET r == verify_certificate(c.val, t) IN
              IF r.kind = "raise" THEN r ELSE c

\* lines 416-440
get_public_key(km, t, key_type) ==
    LET c == get_certificate(km, t) IN
    IF c.kind = "raise" THEN c ELSE check_public_key(c.val.key, key_type)

\* signature_key_type.create_verifier(signature, hash_method, public_key,
\* image_properties), lines 144-219
create_verifier(key_type, sig, hash, key, props, b) ==
    LET ctor == key_type.create_verifier
        p == CASE ctor = "create_verifier_for_pss" -> pss_params(hash, props)
               [] ctor = "create_verifier_for_ecc" -> ecc_params(hash, props)
               [] OTHER -> dsa_params(hash, props)
    IN  IF p.kind = "raise" THEN p
        ELSE IF ctor = "create_verifier_for_pss" /\ padding_PSS(p.val).kind = "raise"
        THEN padding_PSS(p.val)
        ELSE public_key_verifier(b, sig, key, p.val)

\* lines 250-295
get_verifier(reg, props, km, t, b) ==
    IF ~should_create_verifier(props)
    THEN SVE("MissingSignatureMetadata",
             "Required image properties for signature verification do not exist")
    ELSE
    LET sig == get_signature(props.d[SIGNATURE]) IN
    IF sig.kind = "raise" THEN sig ELSE
    LET hash == get_hash_method(props.d[HASH_METHOD]) IN
    IF hash.kind = "raise" THEN hash ELSE
    LET key_type == lookup(reg, props.d[KEY_TYPE]) IN
    IF key_type.kind = "raise" THEN key_type ELSE
    LET key == get_public_key(km, t, key_type.val) IN
    IF key.kind = "raise" THEN key ELSE
    gv_handle(create_verifier(key_type.val, sig.val, hash.val, key.val, props.d, b))

\* lines 323-379
verify_signature(reg, checksum, props, km, t, b, v) ==
    IF ~should_verify_signature(props)
    THEN SVE("MissingSignatureMetadata",
             "Required image properties for signature verification do not exist")
    ELSE
    LET data == to_utf8(checksum) IN
    IF data.kind = "raise" THEN data ELSE
    LET sig == get_signature(props.d[OLD_SIGNATURE]) IN
    IF sig.kind = "raise" THEN sig ELSE
    LET hash == get_hash_method(props.d[OLD_HASH_METHOD]) IN
    IF hash.kind = "raise" THEN hash ELSE
    LET key_type == lookup(reg, props.d[OLD_KEY_TYPE]) IN
    IF key_type.kind = "raise" THEN key_type ELSE
    LET key == get_public_key(km, t, key_type.val) IN
    IF key.kind = "raise" THEN key ELSE
    LET r == vs_handle(create_verifier(key_type.val, sig.val, hash.val, key.val,
                                       props.d, b)) IN
    IF r.kind = "raise" THEN r ELSE vs_verify(v)

(***************************************************************************)
(* Inputs.                                                                 *)
(***************************************************************************)
Times == 0..MaxTime
CertTimes == 0..MaxCertTime
KeyClasses == {"RSAPublicKey", "DSAPublicKey", "EllipticCurvePublicKey"}
Constructors == {"create_verifier_for_pss", "create_verifier_for_dsa",
                 "create_verifier_for_ecc"}
\* "QQ==", "AA" and "é"
SigTexts == {<<81, 81, 61, 61>>, <<65, 65>>, <<233>>}
HashNames == {"SHA-256", "SHA-512", "MD5"}
KeyTypeNames == {RSA_PSS, DSA, "ECC_SECP384R1", "ECC_SECT571K1"}
CertIds == {"cert-1"}
MgfOpts == {<<>>, <<"MGF1">>, <<"MGF2">>}
\* a decimal integer with one digit more than int() converts
LongDigits == [i \in 1..(MAX_STR_DIGITS + 1) |-> 49]
\* "64", "-5", "abc" and " 7"
SaltTexts == {<<54, 52>>, <<45, 53>>, <<97, 98, 99>>, <<32, 55>>}
SaltOpts == {<<>>} \cup {<<t>> : t \in SaltTexts}
\* the checksum a caller passes: the str "a1", the bytes b"a1", a str holding
\* a lone surrogate, None
ChecksumTexts == {Str(<<97, 49>>), Bytes(<<97, 49>>), Str(<<55296>>), PyNone}
\* the curves the crypto backend may report as supported at import time
BackendCurveSets == {{"sect571k1", "sect409k1", "sect571r1", "sect409r1",
                      "secp521r1", "secp384r1"},
                     {"secp521r1", "secp384r1"}}
RegNames == {RSA_PSS, "ECC_SECP384R1", "FOO"}
LookupNames == {RSA_PSS, DSA, "ECC_SECP384R1", "FOO", "BAR"}

NewKeys == <<SIGNATURE, HASH_METHOD, KEY_TYPE, CERT_UUID>>
OldKeys == <<OLD_SIGNATURE, OLD_HASH_METHOD, OLD_KEY_TYPE, OLD_CERT_UUID>>

\* the mapping holding keys[i] for i in present, plus the optional keys given
MkProps(keys, present, sig, h, kt, id, mgf, salt) ==
    LET dom == {keys[i] : i \in present}
               \cup (IF mgf # <<>> THEN {MASK_GEN_ALG} ELSE {})
               \cup (IF salt # <<>> THEN {PSS_SALT_LENGTH} ELSE {})
    IN  [is_none |-> FALSE,
         d |-> [k \in dom |->
                  CASE k = keys[1] -> sig
                    [] k = keys[2] -> h
                    [] k = keys[3] -> kt
                    [] k = keys[4] -> id
                    [] k = MASK_GEN_ALG -> mgf[1]
                    [] OTHER -> salt[1]]]

\* RSA-PSS metadata with all four keys and a pss_salt_length of LongDigits
LongSaltProps(keys) ==
    {MkProps(keys, 1..4, <<81, 81, 61, 61>>, "SHA-256", RSA_PSS, "cert-1", mgf,
             <<LongDigits>>) : mgf \in MgfOpts}

\* the same image's properties under the legacy names
OldName(k) ==
    CASE k = SIGNATURE -> OLD_SIGNATURE
      [] k = HASH_METHOD -> OLD_HASH_METHOD
      [] k = KEY_TYPE -> OLD_KEY_TYPE
      [] k = CERT_UUID -> OLD_CERT_UUID
      [] OTHER -> k
NewName(k) ==
    CASE k = OLD_SIGNATURE -> SIGNATURE
      [] k = OLD_HASH_METHOD -> HASH_METHOD
      [] k = OLD_KEY_TYPE -> KEY_TYPE
      [] k = OLD_CERT_UUID -> CERT_UUID
      [] OTHER -> k
Legacy(props) ==
    [is_none |-> props.is_none,
     d |-> [k \in {OldName(j) : j \in DOMAIN props.d} |-> props.d[NewName(k)]]]

(***************************************************************************)
(* The environment's answers.                                              *)
(***************************************************************************)
KmUndrawn == [kind |-> "undrawn", err |-> "none", format |-> "none", der_ok |-> FALSE,
              not_valid_before |-> 0, not_valid_after |-> 0, key |-> "none"]
KmError(e) == [kind |-> "error", err |-> e, format |-> "none", der_ok |-> FALSE,
               not_valid_before |-> 0, not_valid_after |-> 0, key |-> "none"]
\* key_manager.API() itself raised (line 453)
KmApiError == [kind |-> "api_error", err |-> "RuntimeError", format |-> "none",
               der_ok |-> FALSE, not_valid_before |-> 0, not_valid_after |-> 0,
               key |-> "none"]
KmCert(f, ok, nvb, nva, key) ==
    [kind |-> "cert", err |-> "none", format |-> f, der_ok |-> ok,
     not_valid_before |-> nvb, not_valid_after |-> nva, key |-> key]
\* a lookup failure; an object in a format other than X.509; an X.509 object
\* whose bytes are not DER; an X.509 certificate with a validity window and a key
KmResponses ==
    {KmError(e) : e \in {"NotFound", "BackendError", "Timeout"}}
    \cup {KmCert("PEM", TRUE, 0, MaxCertTime, "RSAPublicKey"),
          KmCert(X_509, FALSE, 0, 0, "none")}
    \cup {KmCert(X_509, TRUE, nvb, nva, key) :
            nvb \in CertTimes, nva \in CertTimes, key \in KeyClasses}
BackendResponses == {"verifier", "unsupported", "falsy"}
VerifyResponses == {"valid", "InvalidSignature"}
Undrawn == "undrawn"
NoTime == 0 - 1

NoDesc == SignatureKeyType("none", "none", "none")
NoCert == [not_valid_before |-> 0, not_valid_after |-> 0, key |-> "none"]
Ev(op, arg) == [op |-> op, arg |-> arg]

(***************************************************************************)
(* Initial state: the module has been imported (lines 223-231 have run)    *)
(* and no call is in progress.                                             *)
(***************************************************************************)
NoVc == [called |-> FALSE, now |-> 0, not_valid_before |-> 0, not_valid_after |-> 0,
         res |-> None]

\* the local state of a call a thread has not made yet
IdleCall ==
    [entry |-> "none", pc |-> "idle", image_properties |-> NoneProps,
     checksum_hash |-> Str(<<>>), signature |-> <<>>, hash_method |-> "none",
     signature_key_type |-> NoDesc, signature_certificate_uuid |-> "none",
     certificate |-> NoCert, public_key |-> "none", padding |-> NoPadding,
     verifier |-> None, outcome |-> None, events |-> <<>>, kmResp |-> KmUndrawn,
     now |-> NoTime, backendResp |-> Undrawn, verifyResp |-> Undrawn]

Init ==
    /\ \E supported \in BackendCurveSets :
          /\ registry = ModuleInitRegistry(supported)
          /\ regLog = ModuleInitCalls(supported)
    /\ regCount = 0
    /\ lookupRes = [called |-> FALSE, name |-> "none", at |-> 0, res |-> None]
    /\ vcCall = NoVc
    /\ entry = "none"
    /\ pc = "idle"
    /\ image_properties = NoneProps
    /\ checksum_hash = Str(<<>>)
    /\ signature = <<>>
    /\ hash_method = "none"
    /\ signature_key_type = NoDesc
    /\ signature_certificate_uuid = "none"
    /\ certificate = NoCert
    /\ public_key = "none"
    /\ padding = NoPadding
    /\ verifier = None
    /\ outcome = None
    /\ events = <<>>
    /\ kmResp = KmUndrawn
    /\ now = NoTime
    /\ backendResp = Undrawn
    /\ verifyResp = Undrawn
    /\ prev = None
    /\ other = IdleCall

(***************************************************************************)
(* get_verifier, lines 250-295.                                            *)
(***************************************************************************)
\* a caller invokes get_verifier(context, image_properties)
GV_Start ==
    /\ pc = "idle"
    /\ \/ \E present \in SUBSET (1..4), sig \in SigTexts, h \in HashNames,
             kt \in KeyTypeNames, id \in CertIds, mgf \in MgfOpts, salt \in SaltOpts :
             image_properties' = MkProps(NewKeys, present, sig, h, kt, id, mgf, salt)
       \/ image_properties' \in LongSaltProps(NewKeys)
    /\ entry' = "get_verifier"
    /\ pc' = "check"
    /\ UNCHANGED <<registry, regLog, regCount, lookupRes, vcCall, checksum_hash, signature,
                   hash_method, signature_key_type, signature_certificate_uuid,
                   certificate, public_key, padding, verifier, outcome, events, kmResp,
                   now, backendResp, verifyResp, prev, other>>

\* a caller invokes get_verifier(context, None)
GV_StartNone ==
    /\ pc = "idle"
    /\ image_properties' = NoneProps
    /\ entry' = "get_verifier"
    /\ pc' = "check"
    /\ UNCHANGED <<registry, regLog, regCount, lookupRes, vcCall, checksum_hash, signature,
                   hash_method, signature_key_type, signature_certificate_uuid,
                   certificate, public_key, padding, verifier, outcome, events, kmResp,
                   now, backendResp, verifyResp, prev, other>>

\* lines 259-263
GV_Check ==
    /\ pc = "check" /\ entry = "get_verifier"
    /\ IF ~should_create_verifier(image_properties)
       THEN /\ outcome' = SVE("MissingSignatureMetadata",
                              "Required image properties for signature verification do not exist")
            /\ pc' = "done"
       ELSE /\ outcome' = outcome
            /\ pc' = "get_signature"
    /\ events' = Append(events, Ev("should_create_verifier", "-"))
    /\ UNCHANGED <<registry, regLog, regCount, lookupRes, vcCall, entry, image_properties,
                   checksum_hash, signature, hash_method, signature_key_type,
                   signature_certificate_uuid, certificate, public_key, padding,
                   verifier, kmResp, now, backendResp, verifyResp, prev, other>>

\* line 265
GV_GetSignature ==
    /\ pc = "get_signature" /\ entry = "get_verifier"
    /\ LET r == get_signature(image_properties.d[SIGNATURE]) IN
       IF r.kind = "raise"
       THEN /\ outcome' = r /\ pc' = "done" /\ signature' = signature
       ELSE /\ outcome' = outcome /\ pc' = "get_hash_method" /\ signature' = r.val
    /\ events' = Append(events, Ev("get_signature", "-"))
    /\ UNCHANGED <<registry, regLog, regCount, lookupRes, vcCall, entry, image_properties,
                   checksum_hash, hash_method, signature_key_type,
                   signature_certificate_uuid, certificate, public_key, padding,
                   verifier, kmResp, now, backendResp, verifyResp, prev, other>>

\* line 266
GV_GetHashMethod ==
    /\ pc = "get_hash_method" /\ entry = "get_verifier"
    /\ LET r == get_hash_method(image_properties.d[HASH_METHOD]) IN
       IF r.kind = "raise"
       THEN /\ outcome' = r /\ pc' = "done" /\ hash_method' = hash_method
       ELSE /\ outcome' = outcome /\ pc' = "lookup" /\ hash_method' = r.val
    /\ events' = Append(events, Ev("get_hash_method", image_properties.d[HASH_METHOD]))
    /\ UNCHANGED <<registry, regLog, regCount, lookupRes, vcCall, entry, image_properties,
                   checksum_hash, signature, signature_key_type,
                   signature_certificate_uuid, certificate, public_key, padding,
                   verifier, kmResp, now, backendResp, verifyResp, prev, other>>

\* variant: a lookup that takes the descriptor out of the registry (dict.pop)
GV_LookupPops ==
    /\ pc = "lookup" /\ entry = "get_verifier"
    /\ LET r == lookup(registry, image_properties.d[KEY_TYPE]) IN
       IF r.kind = "raise"
       THEN /\ outcome' = r /\ pc' = "done"
            /\ signature_key_type' = signature_key_type
            /\ registry' = registry
       ELSE /\ outcome' = outcome /\ pc' = "get_public_key"
            /\ signature_key_type' = r.val
            /\ registry' = [n \in DOMAIN registry \ {image_properties.d[KEY_TYPE]}
                              |-> registry[n]]
    /\ events' = Append(events, Ev("lookup", image_properties.d[KEY_TYPE]))
    /\ UNCHANGED <<regLog, regCount, lookupRes, vcCall, entry, image_properties,
                   checksum_hash, signature, hash_method, signature_certificate_uuid,
                   certificate, public_key, padding, verifier, kmResp, now,
                   backendResp, verifyResp, prev, other>>

\* lines 267-268
GV_Lookup ==
    /\ pc = "lookup" /\ entry = "get_verifier"
    /\ LET r == lookup(registry, image_properties.d[KEY_TYPE]) IN
       IF r.kind = "raise"
       THEN /\ outcome' = r /\ pc' = "done"
            /\ signature_key_type' = signature_key_type
       ELSE /\ outcome' = outcome /\ pc' = "get_public_key"
            /\ signature_key_type' = r.val
    /\ events' = Append(events, Ev("lookup", image_properties.d[KEY_TYPE]))
    /\ UNCHANGED <<registry, regLog, regCount, lookupRes, vcCall, entry, image_properties,
                   checksum_hash, signature, hash_method, signature_certificate_uuid,
                   certificate, public_key, padding, verifier, kmResp, now,
                   backendResp, verifyResp, prev, other>>

\* lines 269-271: the call of get_public_key
GV_GetPublicKey ==
    /\ pc = "get_public_key" /\ entry = "get_verifier"
    /\ signature_certificate_uuid' = image_properties.d[CERT_UUID]
    /\ pc' = "key_manager_API"
    /\ events' = Append(events, Ev("get_public_key", image_properties.d[CERT_UUID]))
    /\ UNCHANGED <<registry, regLog, regCount, lookupRes, vcCall, entry, image_properties,
                   checksum_hash, signature, hash_method, signature_key_type,
                   certificate, public_key, padding, verifier, outcome, kmResp, now,
                   backendResp, verifyResp, prev, other>>

\* lines 279-295
GV_Handle ==
    /\ pc = "handle" /\ entry = "get_verifier"
    /\ outcome' = gv_handle(verifier)
    /\ pc' = "done"
    /\ events' = Append(events, Ev("return", "-"))
    /\ UNCHANGED <<registry, regLog, regCount, lookupRes, vcCall, entry, image_properties,
                   checksum_hash, signature, hash_method, signature_key_type,
                   signature_certificate_uuid, certificate, public_key, padding,
                   verifier, kmResp, now, backendResp, verifyResp, prev, other>>

(***************************************************************************)
(* get_public_key, get_certificate and verify_certificate, lines 416-512,  *)
(* shared by both entry points.  An exception raised here is not caught by *)
(* the entry point and ends the call.                                      *)
(***************************************************************************)
\* line 453: key_manager.API(), outside the try of lines 455-469; what it
\* raises leaves get_certificate and the entry point unchanged
KeyManagerAPI ==
    /\ pc = "key_manager_API"
    /\ \E r \in (IF kmResp.kind = "undrawn" THEN {KmUndrawn, KmApiError} ELSE {kmResp}) :
          /\ kmResp' = r
          /\ IF r.kind = "api_error"
             THEN /\ outcome' = Exc(r.err, "key_manager.API() failed")
                  /\ pc' = "done"
             ELSE /\ outcome' = outcome
                  /\ pc' = "keymgr_get"
    /\ events' = Append(events, Ev("key_manager.API", "-"))
    /\ UNCHANGED <<registry, regLog, regCount, lookupRes, vcCall, entry, image_properties,
                   checksum_hash, signature, hash_method, signature_key_type,
                   signature_certificate_uuid, certificate, public_key, padding,
                   verifier, now, backendResp, verifyResp, prev, other>>

\* lines 455-469: keymgr_api.get and its except clause
KeymgrGet ==
    /\ pc = "keymgr_get"
    /\ \E r \in (IF kmResp.kind = "undrawn" THEN KmResponses ELSE {kmResp}) :
          /\ kmResp' = r
          /\ IF r.kind = "error"
             THEN /\ outcome' = SVE("CertificateRetrievalFailed",
                                    "Unable to retrieve certificate with ID")
                  /\ pc' = "done"
             ELSE /\ outcome' = outcome
                  /\ pc' = "load_certificate"
    /\ events' = Append(events, Ev("keymgr_api.get", signature_certificate_uuid))
    /\ UNCHANGED <<registry, regLog, regCount, lookupRes, vcCall, entry, image_properties,
                   checksum_hash, signature, hash_method, signature_key_type,
                   signature_certificate_uuid, certificate, public_key, padding,
                   verifier, now, backendResp, verifyResp, prev, other>>

\* lines 471-484
LoadCertificate ==
    /\ pc = "load_certificate"
    /\ LET r == load_certificate(kmResp) IN
       IF r.kind = "raise"
       THEN /\ outcome' = r /\ pc' = "done" /\ certificate' = certificate
            /\ events' = Append(events, Ev("format_check", kmResp.format))
                          \o (IF kmResp.format \in CERTIFICATE_FORMATS
                              THEN <<Ev("load_der_x509_certificate", "-")>> ELSE <<>>)
       ELSE /\ outcome' = outcome /\ pc' = "verify_certificate" /\ certificate' = r.val
            /\ events' = events \o <<Ev("format_check", kmResp.format),
                                     Ev("load_der_x509_certificate", "-")>>
    /\ UNCHANGED <<registry, regLog, regCount, lookupRes, vcCall, entry, image_properties,
                   checksum_hash, signature, hash_method, signature_key_type,
                   signature_certificate_uuid, public_key, padding, verifier, kmResp,
                   now, backendResp, verifyResp, prev, other>>

\* line 487 and lines 492-512
VerifyCertificate ==
    /\ pc = "verify_certificate"
    /\ \E t \in (IF now = NoTime THEN CertTimes ELSE {now}) :
          /\ now' = t
          /\ LET r == verify_certificate(certificate, t) IN
             IF r.kind = "raise"
             THEN /\ outcome' = r /\ pc' = "done"
                  /\ events' = Append(events, Ev("verify_certificate", "raise"))
             ELSE /\ outcome' = outcome /\ pc' = "public_key"
                  /\ events' = Append(events, Ev("verify_certificate", "ok"))
    /\ UNCHANGED <<registry, regLog, regCount, lookupRes, vcCall, entry, image_properties,
                   checksum_hash, signature, hash_method, signature_key_type,
                   signature_certificate_uuid, certificate, public_key, padding,
                   verifier, kmResp, backendResp, verifyResp, prev, other>>

\* lines 431-440
PublicKey ==
    /\ pc = "public_key"
    /\ LET r == check_public_key(certificate.key, signature_key_type) IN
       IF r.kind = "raise"
       THEN /\ outcome' = r /\ pc' = "done" /\ public_key' = certificate.key
       ELSE /\ outcome' = outcome /\ pc' = "create_verifier" /\ public_key' = r.val
    /\ events' = events \o <<Ev("certificate.public_key", certificate.key),
                             Ev("isinstance", signature_key_type.public_key_type)>>
    /\ UNCHANGED <<registry, regLog, regCount, lookupRes, vcCall, entry, image_properties,
                   checksum_hash, signature, hash_method, signature_key_type,
                   signature_certificate_uuid, certificate, padding, verifier, kmResp,
                   now, backendResp, verifyResp, prev, other>>

(***************************************************************************)
(* The constructors, called inside the entry point's try block: an         *)
(* exception they raise reaches the except clause (pc "handle").           *)
(***************************************************************************)
\* lines 144-179 and the padding.PSS(...) of line 183; padding holds the
\* arguments of that call, which padding.PSS may reject
CreateVerifierForPss ==
    /\ pc = "create_verifier"
    /\ signature_key_type.create_verifier = "create_verifier_for_pss"
    /\ LET p == pss_params(hash_method, image_properties.d) IN
       IF p.kind = "raise"
       THEN /\ verifier' = p /\ pc' = "handle" /\ padding' = padding
       ELSE /\ padding' = p.val
            /\ IF padding_PSS(p.val).kind = "raise"
               THEN /\ verifier' = padding_PSS(p.val) /\ pc' = "handle"
               ELSE /\ verifier' = verifier /\ pc' = "verifier"
    /\ events' = Append(events, Ev("create_verifier_for_pss", public_key))
    /\ UNCHANGED <<registry, regLog, regCount, lookupRes, vcCall, entry,
                   image_properties, checksum_hash, signature, hash_method,
                   signature_key_type, signature_certificate_uuid, certificate,
                   public_key, outcome, kmResp, now, backendResp, verifyResp, prev,
                   other>>

\* lines 188-201
CreateVerifierForEcc ==
    /\ pc = "create_verifier"
    /\ signature_key_type.create_verifier = "create_verifier_for_ecc"
    /\ padding' = ecc_params(hash_method, image_properties.d).val
    /\ pc' = "verifier"
    /\ events' = Append(events, Ev("create_verifier_for_ecc", public_key))
    /\ UNCHANGED <<registry, regLog, regCount, lookupRes, vcCall, entry,
                   image_properties, checksum_hash, signature, hash_method,
                   signature_key_type, signature_certificate_uuid, certificate,
                   public_key, verifier, outcome, kmResp, now, backendResp, verifyResp,
                   prev, other>>

\* lines 205-218
CreateVerifierForDsa ==
    /\ pc = "create_verifier"
    /\ signature_key_type.create_verifier = "create_verifier_for_dsa"
    /\ padding' = dsa_params(hash_method, image_properties.d).val
    /\ pc' = "verifier"
    /\ events' = Append(events, Ev("create_verifier_for_dsa", public_key))
    /\ UNCHANGED <<registry, regLog, regCount, lookupRes, vcCall, entry,
                   image_properties, checksum_hash, signature, hash_method,
                   signature_key_type, signature_certificate_uuid, certificate,
                   public_key, verifier, outcome, kmResp, now, backendResp, verifyResp,
                   prev, other>>

\* lines 181-185, 199-202, 216-219: public_key.verifier(...)
PublicKeyVerifier ==
    /\ pc = "verifier"
    /\ \E b \in (IF backendResp = Undrawn THEN BackendResponses ELSE {backendResp}) :
          /\ backendResp' = b
          /\ verifier' = public_key_verifier(b, signature, public_key, padding)
    /\ pc' = "handle"
    /\ events' = Append(events, Ev("public_key.verifier", public_key))
    /\ UNCHANGED <<registry, regLog, regCount, lookupRes, vcCall, entry, image_properties,
                   checksum_hash, signature, hash_method, signature_key_type,
                   signature_certificate_uuid, certificate, public_key, padding,
                   outcome, kmResp, now, verifyResp, prev, other>>

(***************************************************************************)
(* verify_signature, lines 323-379.                                        *)
(***************************************************************************)
\* a caller invokes verify_signature(context, checksum_hash, image_properties)
VS_Start ==
    /\ pc = "idle"
    /\ \/ \E present \in SUBSET (1..4), sig \in SigTexts, h \in HashNames,
             kt \in KeyTypeNames, id \in CertIds, mgf \in MgfOpts, salt \in SaltOpts :
             image_properties' = MkProps(OldKeys, present, sig, h, kt, id, mgf, salt)
       \/ image_properties' \in LongSaltProps(OldKeys)
    /\ \E c \in ChecksumTexts : checksum_hash' = c
    /\ entry' = "verify_signature"
    /\ pc' = "check"
    /\ UNCHANGED <<registry, regLog, regCount, lookupRes, vcCall, signature,
                   hash_method, signature_key_type, signature_certificate_uuid,
                   certificate, public_key, padding, verifier, outcome, events, kmResp,
                   now, backendResp, verifyResp, prev, other>>

\* a caller invokes verify_signature(context, checksum_hash, None)
VS_StartNone ==
    /\ pc = "idle"
    /\ image_properties' = NoneProps
    /\ \E c \in ChecksumTexts : checksum_hash' = c
    /\ entry' = "verify_signature"
    /\ pc' = "check"
    /\ UNCHANGED <<registry, regLog, regCount, lookupRes, vcCall, signature,
                   hash_method, signature_key_type, signature_certificate_uuid,
                   certificate, public_key, padding, verifier, outcome, events, kmResp,
                   now, backendResp, verifyResp, prev, other>>

\* after get_verifier has finished, verify_signature is invoked for the same image
\* (its properties under the legacy names) against the same key manager, clock
\* and backend
VS_StartSame ==
    /\ pc = "done" /\ entry = "get_verifier"
    /\ image_properties' = Legacy(image_properties)
    /\ \E c \in ChecksumTexts : checksum_hash' = c
    /\ entry' = "verify_signature"
    /\ pc' = "check"
    /\ prev' = outcome
    /\ outcome' = None
    /\ events' = <<>>
    /\ signature' = <<>>
    /\ hash_method' = "none"
    /\ signature_key_type' = NoDesc
    /\ signature_certificate_uuid' = "none"
    /\ certificate' = NoCert
    /\ public_key' = "none"
    /\ padding' = NoPadding
    /\ verifier' = None
    /\ UNCHANGED <<registry, regLog, regCount, lookupRes, vcCall, kmResp, now,
                   backendResp, verifyResp, other>>

\* lines 333-337
VS_Check ==
    /\ pc = "check" /\ entry = "verify_signature"
    /\ IF ~should_verify_signature(image_properties)
       THEN /\ outcome' = SVE("MissingSignatureMetadata",
                              "Required image properties for signature verification do not exist")
            /\ pc' = "done"
       ELSE /\ outcome' = outcome
            /\ pc' = "to_utf8"
    /\ events' = Append(events, Ev("should_verify_signature", "-"))
    /\ UNCHANGED <<registry, regLog, regCount, lookupRes, vcCall, entry,
                   image_properties, checksum_hash, signature, hash_method,
                   signature_key_type, signature_certificate_uuid, certificate,
                   public_key, padding, verifier, kmResp, now, backendResp, verifyResp,
                   prev, other>>

\* line 339
VS_ToUtf8 ==
    /\ pc = "to_utf8" /\ entry = "verify_signature"
    /\ LET r == to_utf8(checksum_hash) IN
       IF r.kind = "raise"
       THEN /\ outcome' = r /\ pc' = "done" /\ checksum_hash' = checksum_hash
       ELSE /\ outcome' = outcome /\ pc' = "get_signature" /\ checksum_hash' = r.val
    /\ events' = Append(events, Ev("to_utf8", "-"))
    /\ UNCHANGED <<registry, regLog, regCount, lookupRes, vcCall, entry,
                   image_properties, signature, hash_method, signature_key_type,
                   signature_certificate_uuid, certificate, public_key, padding,
                   verifier, kmResp, now, backendResp, verifyResp, prev, other>>

\* line 341
VS_GetSignature ==
    /\ pc = "get_signature" /\ entry = "verify_signature"
    /\ LET r == get_signature(image_properties.d[OLD_SIGNATURE]) IN
       IF r.kind = "raise"
       THEN /\ outcome' = r /\ pc' = "done" /\ signature' = signature
       ELSE /\ outcome' = outcome /\ pc' = "get_hash_method" /\ signature' = r.val
    /\ events' = Append(events, Ev("get_signature", "-"))
    /\ UNCHANGED <<registry, regLog, regCount, lookupRes, vcCall, entry,
                   image_properties, checksum_hash, hash_method, signature_key_type,
                   signature_certificate_uuid, certificate, public_key, padding,
                   verifier, kmResp, now, backendResp, verifyResp, prev, other>>

\* line 342
VS_GetHashMethod ==
    /\ pc = "get_hash_method" /\ entry = "verify_signature"
    /\ LET r == get_hash_method(image_properties.d[OLD_HASH_METHOD]) IN
       IF r.kind = "raise"
       THEN /\ outcome' = r /\ pc' = "done" /\ hash_method' = hash_method
       ELSE /\ outcome' = outcome /\ pc' = "lookup" /\ hash_method' = r.val
    /\ events' = Append(events, Ev("get_hash_method", image_properties.d[OLD_HASH_METHOD]))
    /\ UNCHANGED <<registry, regLog, regCount, lookupRes, vcCall, entry,
                   image_properties, checksum_hash, signature, signature_key_type,
                   signature_certificate_uuid, certificate, public_key, padding,
                   verifier, kmResp, now, backendResp, verifyResp, prev, other>>

\* lines 343-344
VS_Lookup ==
    /\ pc = "lookup" /\ entry = "verify_signature"
    /\ LET r == lookup(registry, image_properties.d[OLD_KEY_TYPE]) IN
       IF r.kind = "raise"
       THEN /\ outcome' = r /\ pc' = "done"
            /\ signature_key_type' = signature_key_type
       ELSE /\ outcome' = outcome /\ pc' = "get_public_key"
            /\ signature_key_type' = r.val
    /\ events' = Append(events, Ev("lookup", image_properties.d[OLD_KEY_TYPE]))
    /\ UNCHANGED <<registry, regLog, regCount, lookupRes, vcCall, entry,
                   image_properties, checksum_hash, signature, hash_method,
                   signature_certificate_uuid, certificate, public_key, padding,
                   verifier, kmResp, now, backendResp, verifyResp, prev, other>>

\* lines 345-347: the call of get_public_key
VS_GetPublicKey ==
    /\ pc = "get_public_key" /\ entry = "verify_signature"
    /\ signature_certificate_uuid' = image_properties.d[OLD_CERT_UUID]
    /\ pc' = "key_manager_API"
    /\ events' = Append(events, Ev("get_public_key", image_properties.d[OLD_CERT_UUID]))
    /\ UNCHANGED <<registry, regLog, regCount, lookupRes, vcCall, entry,
                   image_properties, checksum_hash, signature, hash_method,
                   signature_key_type, certificate, public_key, padding, verifier,
                   outcome, kmResp, now, backendResp, verifyResp, prev, other>>

\* lines 355-367 and 375-379
VS_Handle ==
    /\ pc = "handle" /\ entry = "verify_signature"
    /\ LET r == vs_handle(verifier) IN
       IF r.kind = "raise"
       THEN /\ outcome' = r /\ pc' = "done" /\ verifier' = verifier
            /\ events' = Append(events, Ev("raise", "-"))
       ELSE /\ outcome' = outcome /\ pc' = "verify"
            /\ verifier' = [verifier EXCEPT !.val.data = checksum_hash.v]
            /\ events' = Append(events, Ev("verifier.update", "-"))
    /\ UNCHANGED <<registry, regLog, regCount, lookupRes, vcCall, entry,
                   image_properties, checksum_hash, signature, hash_method,
                   signature_key_type, signature_certificate_uuid, certificate,
                   public_key, padding, kmResp, now, backendResp, verifyResp, prev,
                   other>>

\* lines 368-374
VS_Verify ==
    /\ pc = "verify" /\ entry = "verify_signature"
    /\ \E v \in VerifyResponses :
          /\ verifyResp' = v
          /\ outcome' = vs_verify(v)
    /\ pc' = "done"
    /\ events' = Append(events, Ev("verifier.verify", "-"))
    /\ UNCHANGED <<registry, regLog, regCount, lookupRes, vcCall, entry,
                   image_properties, checksum_hash, signature, hash_method,
                   signature_key_type, signature_certificate_uuid, certificate,
                   public_key, padding, verifier, kmResp, now, backendResp, prev, other>>

(***************************************************************************)
(* Direct use of the registry and of verify_certificate.                   *)
(***************************************************************************)
RegKeyClasses == {"RSAPublicKey", "DSAPublicKey"}
RegConstructors == {"create_verifier_for_pss", "create_verifier_for_dsa"}

\* SignatureKeyType.register(name, public_key_type, create_verifier), lines 115-125
Register ==
    /\ pc = "idle"
    /\ regCount < MaxRegs
    /\ \E name \in RegNames, pkt \in RegKeyClasses, cv \in RegConstructors :
          /\ registry' = register(registry, name, pkt, cv)
          /\ regLog' = Append(regLog, RegCall(name, pkt, cv))
    /\ regCount' = regCount + 1
    /\ UNCHANGED <<lookupRes, vcCall, entry, pc, image_properties, checksum_hash,
                   signature, hash_method, signature_key_type,
                   signature_certificate_uuid, certificate, public_key, padding,
                   verifier, outcome, events, kmResp, now, backendResp, verifyResp,
                   prev, other>>

\* SignatureKeyType.lookup(name), lines 127-140
Lookup ==
    /\ pc = "idle"
    /\ \E name \in LookupNames :
          lookupRes' = [called |-> TRUE, name |-> name, at |-> Len(regLog),
                        res |-> lookup(registry, name)]
    /\ UNCHANGED <<registry, regLog, regCount, vcCall, entry, pc, image_properties,
                   checksum_hash, signature, hash_method, signature_key_type,
                   signature_certificate_uuid, certificate, public_key, padding,
                   verifier, outcome, events, kmResp, now, backendResp, verifyResp,
                   prev, other>>

\* verify_certificate(certificate) at instant t, lines 492-512
VerifyCertificateCall ==
    /\ pc = "idle"
    /\ \E t \in Times, nvb \in Times, nva \in Times :
          vcCall' = [called |-> TRUE, now |-> t, not_valid_before |-> nvb,
                     not_valid_after |-> nva,
                     res |-> verify_certificate(
                                [not_valid_before |-> nvb, not_valid_after |-> nva,
                                 key |-> "RSAPublicKey"], t)]
    /\ UNCHANGED <<registry, regLog, regCount, lookupRes, entry, pc, image_properties,
                   checksum_hash, signature, hash_method, signature_key_type,
                   signature_certificate_uuid, certificate, public_key, padding,
                   verifier, outcome, events, kmResp, now, backendResp, verifyResp,
                   prev, other>>

(***************************************************************************)
(* Specifications.                                                         *)
(***************************************************************************)
Next ==
    \/ GV_Start \/ GV_StartNone \/ GV_Check \/ GV_GetSignature \/ GV_GetHashMethod
    \/ GV_Lookup \/ GV_GetPublicKey \/ GV_Handle
    \/ VS_Start \/ VS_StartNone \/ VS_StartSame \/ VS_Check \/ VS_ToUtf8
    \/ VS_GetSignature \/ VS_GetHashMethod \/ VS_Lookup \/ VS_GetPublicKey
    \/ VS_Handle \/ VS_Verify
    \/ KeyManagerAPI \/ KeymgrGet \/ LoadCertificate \/ VerifyCertificate \/ PublicKey
    \/ CreateVerifierForPss \/ CreateVerifierForEcc \/ CreateVerifierForDsa
    \/ PublicKeyVerifier

\* calls of get_verifier and verify_signature after module initialization
Spec == Init /\ [][Next]_vars

\* register and lookup calls on the registry
NextRegistry == Register \/ Lookup
SpecRegistry == Init /\ [][NextRegistry]_vars

\* direct calls of verify_certificate
NextCert == VerifyCertificateCall
SpecCert == Init /\ [][NextCert]_vars

(***************************************************************************)
(* Two threads of the API server inside get_verifier / verify_signature at *)
(* the same time.  The variables of the call hold the thread that is       *)
(* running; other holds the thread that was preempted.  The threads share  *)
(* the class attribute _REGISTERED_TYPES and nothing else: arguments,      *)
(* locals and the environment's answers belong to each call.  A thread may *)
(* be preempted between any two steps of the call.                         *)
(***************************************************************************)
\* the call in progress in the running thread
Call ==
    [entry |-> entry, pc |-> pc, image_properties |-> image_properties,
     checksum_hash |-> checksum_hash, signature |-> signature,
     hash_method |-> hash_method, signature_key_type |-> signature_key_type,
     signature_certificate_uuid |-> signature_certificate_uuid,
     certificate |-> certificate, public_key |-> public_key, padding |-> padding,
     verifier |-> verifier, outcome |-> outcome, events |-> events,
     kmResp |-> kmResp, now |-> now, backendResp |-> backendResp,
     verifyResp |-> verifyResp]

\* the images whose signatures the two threads handle, and what the key manager
\* answers each of them
ConcurrentKeyTypes == {RSA_PSS, DSA, "ECC_SECT571K1"}
ConcurrentPresent == {1..4, {1, 2, 3}}
ConcurrentKm == {KmApiError, KmError("NotFound")}
                \cup {KmCert(X_509, TRUE, 1, 1, key) : key \in KeyClasses}
ConcurrentProps(keys) ==
    {MkProps(keys, present, <<81, 81, 61, 61>>, "SHA-256", kt, "cert-1", <<>>, <<>>) :
        present \in ConcurrentPresent, kt \in ConcurrentKeyTypes}
ConcurrentCalls ==
    {[IdleCall EXCEPT !.entry = "get_verifier", !.pc = "check",
                      !.image_properties = props, !.kmResp = km] :
        props \in ConcurrentProps(NewKeys), km \in ConcurrentKm}
    \cup
    {[IdleCall EXCEPT !.entry = "verify_signature", !.pc = "check",
                      !.image_properties = props, !.checksum_hash = c,
                      !.kmResp = km] :
        props \in ConcurrentProps(OldKeys), c \in ChecksumTexts, km \in ConcurrentKm}

\* the thread c becomes the running thread
Resume(c) ==
    /\ entry' = c.entry
    /\ pc' = c.pc
    /\ image_properties' = c.image_properties
    /\ checksum_hash' = c.checksum_hash
    /\ signature' = c.signature
    /\ hash_method' = c.hash_method
    /\ signature_key_type' = c.signature_key_type
    /\ signature_certificate_uuid' = c.signature_certificate_uuid
    /\ certificate' = c.certificate
    /\ public_key' = c.public_key
    /\ padding' = c.padding
    /\ verifier' = c.verifier
    /\ outcome' = c.outcome
    /\ events' = c.events
    /\ kmResp' = c.kmResp
    /\ now' = c.now
    /\ backendResp' = c.backendResp
    /\ verifyResp' = c.verifyResp

\* two threads each invoke get_verifier or verify_signature
ConcurrentStart ==
    /\ pc = "idle" /\ other.pc = "idle"
    /\ \E a \in ConcurrentCalls, b \in ConcurrentCalls :
          /\ Resume(a)
          /\ other' = b
    /\ UNCHANGED <<registry, regLog, regCount, lookupRes, vcCall, prev>>

\* the running thread is preempted and the other thread continues its call
Switch ==
    /\ pc # "idle"
    /\ other.pc \notin {"idle", "done"}
    /\ Resume(other)
    /\ other' = Call
    /\ UNCHANGED <<registry, regLog, regCount, lookupRes, vcCall, prev>>

NextConcurrent ==
    \/ ConcurrentStart \/ Switch
    \/ GV_Check \/ GV_GetSignature \/ GV_GetHashMethod
    \/ GV_Lookup \/ GV_GetPublicKey \/ GV_Handle
    \/ VS_Check \/ VS_ToUtf8
    \/ VS_GetSignature \/ VS_GetHashMethod \/ VS_Lookup \/ VS_GetPublicKey
    \/ VS_Handle \/ VS_Verify
    \/ KeyManagerAPI \/ KeymgrGet \/ LoadCertificate \/ VerifyCertificate \/ PublicKey
    \/ CreateVerifierForPss \/ CreateVerifierForEcc \/ CreateVerifierForDsa
    \/ PublicKeyVerifier

\* two concurrent calls of get_verifier / verify_signature after module
\* initialization
SpecConcurrent == Init /\ [][NextConcurrent]_vars

(***************************************************************************)
(* Vocabulary of the properties.                                           *)
(***************************************************************************)
HasEvent(op) == \E i \in 1..Len(events) : events[i].op = op
EventCount(op) == Cardinality({i \in 1..Len(events) : events[i].op = op})
KeyNames == IF entry = "verify_signature" THEN OldKeys ELSE NewKeys
AllPresent ==
    /\ ~image_properties.is_none
    /\ {KeyNames[i] : i \in 1..4} \subseteq DOMAIN image_properties.d
Field(i) == image_properties.d[KeyNames[i]]
CtorOps == {"create_verifier_for_pss", "create_verifier_for_ecc",
            "create_verifier_for_dsa"}
KeyUseOps == {"certificate.public_key", "isinstance", "public_key.verifier"} \cup CtorOps
InWindow == /\ now \in CertTimes
            /\ certificate.not_valid_before <= now
            /\ now <= certificate.not_valid_after
Raised(cause) ==
    /\ pc = "done"
    /\ outcome.kind = "raise"
    /\ outcome.exc = "SignatureVerificationError"
    /\ outcome.cause = cause
MaxOf(S) == CHOOSE x \in S : \A y \in S : y <= x

(***************************************************************************)
(* C1: in get_verifier and in verify_signature the certificate's validity  *)
(* window check has succeeded before the certificate's public key is       *)
(* derived, type-checked or handed to a constructor, and get_certificate   *)
(* returns (pc "public_key") only a certificate whose window contains the  *)
(* instant of the check.                                                   *)
(***************************************************************************)
C1_ValidityCheckedBeforeKeyUse ==
    /\ \A i \in 1..Len(events) :
          events[i].op \in KeyUseOps =>
             /\ \E j \in 1..(i - 1) : events[j] = Ev("verify_certificate", "ok")
             /\ InWindow
    /\ pc = "public_key" =>
          /\ InWindow
          /\ events[Len(events)] = Ev("verify_certificate", "ok")

C1_Witness ==
    /\ pc = "done" /\ outcome.kind = "ok"
    /\ HasEvent("public_key.verifier")
    /\ now = certificate.not_valid_after
    /\ certificate.not_valid_before < now

(***************************************************************************)
(* C2: a constructor (and the backend's verifier factory) is invoked only  *)
(* with a public key whose type is the public_key_type of the descriptor   *)
(* registered under the declared key-type name, and it is that             *)
(* descriptor's constructor; when the certificate's key has another type   *)
(* the call fails with KeyTypeMismatch and no constructor has run.         *)
(***************************************************************************)
C2_VerifierOnlyFromMatchingKey ==
    /\ \A i \in 1..Len(events) :
          events[i].op \in CtorOps \cup {"public_key.verifier"} =>
             /\ AllPresent
             /\ Field(3) \in DOMAIN registry
             /\ events[i].arg = registry[Field(3)].public_key_type
             /\ events[i].arg = certificate.key
             /\ events[i].op \in CtorOps =>
                   events[i].op = registry[Field(3)].create_verifier
    /\ (HasEvent("isinstance") /\ certificate.key # registry[Field(3)].public_key_type)
          => /\ Raised("KeyTypeMismatch")
             /\ \A i \in 1..Len(events) :
                   events[i].op \notin CtorOps \cup {"public_key.verifier"}
             /\ verifier = None

C2_Witness ==
    /\ Raised("KeyTypeMismatch")
    /\ Field(3) = RSA_PSS
    /\ certificate.key = "DSAPublicKey"

(***************************************************************************)
(* C3: get_verifier runs its steps in the fixed order fields check,        *)
(* signature decode, hash-method resolve, key-type lookup, certificate     *)
(* fetch and validation, key-type match, construction; a step runs only if *)
(* the earlier ones succeeded, so the key manager is never called for      *)
(* metadata with a missing field, an undecodable signature, an unknown     *)
(* hash method or an unregistered key type; and the error raised is that   *)
(* of the earliest failing step.                                           *)
(***************************************************************************)
GVStep(op) ==
    CASE op = "should_create_verifier" -> 1
      [] op = "get_signature" -> 2
      [] op = "get_hash_method" -> 3
      [] op = "lookup" -> 4
      [] op = "get_public_key" -> 5
      [] op = "key_manager.API" -> 6
      [] op = "keymgr_api.get" -> 7
      [] op = "format_check" -> 8
      [] op = "load_der_x509_certificate" -> 9
      [] op = "verify_certificate" -> 10
      [] op = "certificate.public_key" -> 11
      [] op = "isinstance" -> 12
      [] op \in CtorOps -> 13
      [] op = "public_key.verifier" -> 14
      [] OTHER -> 15

C3_FixedStepOrder ==
    entry = "get_verifier" =>
       /\ \A i \in 1..Len(events) :
             IF events[i].op = "return"
             THEN i = Len(events) /\ i >= 14 /\ pc = "done"
             ELSE GVStep(events[i].op) = i
       /\ pc # "done" => outcome.kind = "none"
       /\ HasEvent("get_signature") => AllPresent
       /\ HasEvent("get_hash_method") => decode_as_bytes(Field(1)).ok
       /\ HasEvent("lookup") => Field(2) \in HASH_METHODS
       /\ HasEvent("keymgr_api.get") =>
             /\ AllPresent
             /\ decode_as_bytes(Field(1)).ok
             /\ Field(2) \in HASH_METHODS
             /\ Field(3) \in DOMAIN registry
       /\ HasEvent("load_der_x509_certificate") =>
             kmResp.kind = "cert" /\ kmResp.format = X_509
       /\ HasEvent("verify_certificate") => kmResp.der_ok
       /\ HasEvent("certificate.public_key") => InWindow
       /\ pc = "done" =>
             IF ~AllPresent THEN Raised("MissingSignatureMetadata")
             ELSE IF ~decode_as_bytes(Field(1)).ok
             THEN outcome = get_signature(Field(1)) /\ Len(events) = 2
             ELSE IF Field(2) \notin HASH_METHODS
             THEN Raised("UnsupportedAlgorithmName")
                  /\ outcome.msg = "Invalid signature hash method"
             ELSE IF Field(3) \notin DOMAIN registry THEN Raised("UnknownKeyType")
             ELSE IF kmResp.kind = "api_error"
             THEN outcome.kind = "raise" /\ Len(events) = 6
             ELSE IF kmResp.kind = "error" THEN Raised("CertificateRetrievalFailed")
             ELSE IF kmResp.format # X_509 THEN Raised("CertificateFormatInvalid")
             ELSE IF ~kmResp.der_ok THEN outcome.kind = "raise" /\ Len(events) = 9
             ELSE IF now < kmResp.not_valid_before \/ now > kmResp.not_valid_after
             THEN outcome.kind = "raise"
                  /\ outcome.cause \in {"CertificateNotYetValid", "CertificateExpired"}
             ELSE IF kmResp.key # registry[Field(3)].public_key_type
             THEN Raised("KeyTypeMismatch")
             ELSE HasEvent("return")

C3_Witness ==
    /\ entry = "get_verifier"
    /\ Raised("InvalidSignatureEncoding")
    /\ Field(2) = "MD5"
    /\ Field(3) \notin DOMAIN registry
    /\ events = <<Ev("should_create_verifier", "-"), Ev("get_signature", "-")>>

(***************************************************************************)
(* C4: every failing outcome of get_verifier and of verify_signature is a  *)
(* SignatureVerificationError, never another error kind.                   *)
(***************************************************************************)
C4_EveryFailureIsSignatureVerificationError ==
    (pc = "done" /\ outcome.kind = "raise") =>
        outcome.exc = "SignatureVerificationError"

(***************************************************************************)
(* C5 as claimed: for every (now, not_valid_before, not_valid_after),      *)
(* inverted windows included, verify_certificate fails with                *)
(* CertificateExpired if now > not_valid_after, fails with                 *)
(* CertificateNotYetValid if now < not_valid_before, and otherwise         *)
(* succeeds.                                                               *)
(***************************************************************************)
VcFailed(cause) == vcCall.res.kind = "raise" /\ vcCall.res.cause = cause

C5_Original ==
    vcCall.called =>
       /\ vcCall.now > vcCall.not_valid_after => VcFailed("CertificateExpired")
       /\ vcCall.now < vcCall.not_valid_before => VcFailed("CertificateNotYetValid")
       /\ (vcCall.not_valid_before <= vcCall.now /\ vcCall.now <= vcCall.not_valid_after)
             => vcCall.res.kind = "ok"

(***************************************************************************)
(* C5 amended: verify_certificate fails with CertificateNotYetValid if     *)
(* now < not_valid_before (also when now > not_valid_after holds too, as   *)
(* it can for an inverted window), fails with CertificateExpired if        *)
(* now >= not_valid_before and now > not_valid_after, and otherwise        *)
(* succeeds; an instant equal to either bound is valid.                    *)
(***************************************************************************)
C5_NotYetValidTakesPrecedence ==
    vcCall.called =>
       /\ vcCall.now < vcCall.not_valid_before => VcFailed("CertificateNotYetValid")
       /\ (vcCall.now >= vcCall.not_valid_before /\ vcCall.now > vcCall.not_valid_after)
             => VcFailed("CertificateExpired")
       /\ (vcCall.not_valid_before <= vcCall.now /\ vcCall.now <= vcCall.not_valid_after)
             => vcCall.res.kind = "ok"

C5_Witness ==
    /\ vcCall.called
    /\ vcCall.not_valid_after < vcCall.now
    /\ vcCall.now < vcCall.not_valid_before
    /\ VcFailed("CertificateNotYetValid")

(***************************************************************************)
(* C6: get_verifier fails with MissingSignatureMetadata, before any other  *)
(* step, for None and for every mapping lacking at least one of the four   *)
(* required keys, whichever is missing and whatever the other values; the  *)
(* check of should_create_verifier passes exactly when all four keys are   *)
(* present.                                                                *)
(***************************************************************************)
C6_MissingFieldsRejected ==
    (entry = "get_verifier" /\ pc # "check") =>
       /\ ~AllPresent =>
             /\ Raised("MissingSignatureMetadata")
             /\ events = <<Ev("should_create_verifier", "-")>>
       /\ AllPresent <=> ~Raised("MissingSignatureMetadata")

C6_Witness ==
    /\ entry = "get_verifier"
    /\ Raised("MissingSignatureMetadata")
    /\ DOMAIN image_properties.d = {SIGNATURE, KEY_TYPE, CERT_UUID, PSS_SALT_LENGTH}
    /\ ~decode_as_bytes(image_properties.d[SIGNATURE]).ok

(***************************************************************************)
(* C7: after any sequence of register calls, lookup(name) fails with       *)
(* UnknownKeyType iff name was never registered and otherwise returns the  *)
(* descriptor of the most recent register call for that name; the registry *)
(* holds, for every name, exactly its latest registration, so a register   *)
(* call leaves the entries of other names alone.                           *)
(***************************************************************************)
RegIdx(name, n) == {i \in 1..n : regLog[i].name = name}

C7_LastRegistrationWins ==
    /\ lookupRes.called =>
          LET idx == RegIdx(lookupRes.name, lookupRes.at) IN
          IF idx = {}
          THEN /\ lookupRes.res.kind = "raise"
               /\ lookupRes.res.exc = "SignatureVerificationError"
               /\ lookupRes.res.cause = "UnknownKeyType"
          ELSE lookupRes.res = Ok(regLog[MaxOf(idx)])
    /\ \A name \in DOMAIN registry \cup LookupNames \cup RegNames :
          LET idx == RegIdx(name, Len(regLog)) IN
          /\ name \in DOMAIN registry <=> idx # {}
          /\ idx # {} => registry[name] = regLog[MaxOf(idx)]

C7_Witness ==
    /\ lookupRes.called /\ lookupRes.name = RSA_PSS /\ lookupRes.at = Len(regLog)
    /\ regCount = 2
    /\ lookupRes.res.kind = "ok"
    /\ lookupRes.res.val.public_key_type = "DSAPublicKey"
    /\ "FOO" \in DOMAIN registry
    /\ registry[DSA].create_verifier = "create_verifier_for_dsa"

(***************************************************************************)
(* C8: a call of get_certificate invokes the key manager's get exactly     *)
(* once, and when that invocation fails the call fails at once with        *)
(* CertificateRetrievalFailed: no second attempt, nothing decoded or       *)
(* validated.  The code breaks the first half when key_manager.API()       *)
(* raises: get_certificate ends without having invoked get.                *)
(***************************************************************************)
C8_SingleKeymgrCall ==
    /\ EventCount("keymgr_api.get") <= 1
    /\ (HasEvent("get_public_key") /\ pc \notin {"key_manager_API", "keymgr_get"})
          => EventCount("keymgr_api.get") = 1
    /\ (HasEvent("keymgr_api.get") /\ kmResp.kind # "cert") =>
          /\ kmResp.kind = "error"
          /\ Raised("CertificateRetrievalFailed")
          /\ events[Len(events)].op = "keymgr_api.get"
          /\ certificate = NoCert
          /\ now = NoTime

Checked == should_verify_signature(image_properties)
Encoded == to_utf8(checksum_hash)

Props == image_properties.d
MgfKey == MASK_GEN_ALG \in DOMAIN Props
SaltKey == PSS_SALT_LENGTH \in DOMAIN Props
MgfOK == ~MgfKey \/ Props[MASK_GEN_ALG] = "MGF1"
SaltOK == ~SaltKey \/ int(Props[PSS_SALT_LENGTH]).ok
\* padding.PSS(...) has been called, with the arguments held in padding
ParamsChosen == padding.scheme = "PSS"
CtorFailed(cause) ==
    /\ verifier.kind = "raise"
    /\ verifier.exc = "SignatureVerificationError"
    /\ verifier.cause = cause

OtherConstructorsIgnoreOptions ==
    /\ HasEvent("create_verifier_for_dsa") =>
          /\ padding = Padding("DSA", "none", "none", NoSalt, Field(2))
          /\ verifier.kind = "raise" => verifier.exc = "UnsupportedAlgorithm"
    /\ HasEvent("create_verifier_for_ecc") =>
          /\ padding = Padding("ECDSA", "none", "none", NoSalt, Field(2))
          /\ verifier.kind = "raise" => verifier.exc = "UnsupportedAlgorithm"

C10_Original ==
    /\ HasEvent("create_verifier_for_pss") =>
          /\ (MgfOK /\ ~SaltKey) =>
                ParamsChosen /\ padding.salt_length = MAX_LENGTH
          /\ (MgfOK /\ SaltKey /\ int(Props[PSS_SALT_LENGTH]).ok) =>
                /\ ParamsChosen
                /\ padding.salt_length = SaltOf(int(Props[PSS_SALT_LENGTH]).val)
          /\ (SaltKey /\ ~int(Props[PSS_SALT_LENGTH]).ok) =>
                CtorFailed("InvalidParameterValue")
          /\ (~MgfKey /\ SaltOK) =>
                /\ ParamsChosen
                /\ padding.mgf_alg = "MGF1"
                /\ padding.mgf_hash = hash_method
                /\ hash_method = Field(2)
          /\ (MgfKey /\ Props[MASK_GEN_ALG] # "MGF1") =>
                CtorFailed("UnsupportedAlgorithmName")
    /\ OtherConstructorsIgnoreOptions

(***************************************************************************)
(* C10 amended: the RSA-PSS constructor checks mask_gen_algorithm first    *)
(* and pss_salt_length second.  With a mask_gen_algorithm other than       *)
(* 'MGF1' it fails with UnsupportedAlgorithmName whatever pss_salt_length  *)
(* is.  Otherwise, with a pss_salt_length that int() rejects (a text that  *)
(* is not a decimal integer, or one of more than 4300 digits) it fails     *)
(* with InvalidParameterValue.  Otherwise it calls padding.PSS with MGF1   *)
(* over the signature's hash method and with the maximum salt length when  *)
(* pss_salt_length is absent, with exactly int(pss_salt_length) when it is *)
(* present; a negative integer is passed as it is, padding.PSS rejects it  *)
(* with ValueError and no verifier is requested.  The DSA and ECDSA        *)
(* constructors ignore both keys.                                          *)
(***************************************************************************)
PssChoices ==
    /\ ~MgfOK =>
          /\ CtorFailed("UnsupportedAlgorithmName")
          /\ ~ParamsChosen
    /\ (MgfOK /\ ~SaltOK) =>
          /\ CtorFailed("InvalidParameterValue")
          /\ ~ParamsChosen
    /\ (MgfOK /\ SaltKey /\ Props[PSS_SALT_LENGTH] \in {<<97, 98, 99>>, LongDigits}) =>
          CtorFailed("InvalidParameterValue")
    /\ (MgfOK /\ SaltOK) =>
          /\ ParamsChosen
          /\ padding.mgf_alg = "MGF1"
          /\ padding.mgf_hash = hash_method
          /\ padding.hash = hash_method
          /\ hash_method = Field(2)
          /\ ~SaltKey => padding.salt_length = MAX_LENGTH
          /\ SaltKey =>
                /\ padding.salt_length = SaltOf(int(Props[PSS_SALT_LENGTH]).val)
                /\ Props[PSS_SALT_LENGTH] = <<54, 52>> => padding.salt_length.n = 64
                /\ Props[PSS_SALT_LENGTH] = <<32, 55>> => padding.salt_length.n = 7
                /\ Props[PSS_SALT_LENGTH] = <<45, 53>> => padding.salt_length.n = 0 - 5
          /\ IF SaltKey /\ int(Props[PSS_SALT_LENGTH]).val < 0
             THEN /\ verifier.kind = "raise" /\ verifier.exc = "ValueError"
                  /\ ~HasEvent("public_key.verifier")
             ELSE verifier.kind = "raise" => verifier.exc = "UnsupportedAlgorithm"

C10_PssParameters ==
    /\ HasEvent("create_verifier_for_pss") => PssChoices
    /\ OtherConstructorsIgnoreOptions

\* mask_gen_algorithm 'MGF2' with pss_salt_length 'abc'
C10_Witness ==
    /\ HasEvent("create_verifier_for_pss")
    /\ MgfKey /\ Props[MASK_GEN_ALG] = "MGF2"
    /\ SaltKey /\ Props[PSS_SALT_LENGTH] = <<97, 98, 99>>
    /\ CtorFailed("UnsupportedAlgorithmName")
    /\ pc = "done"

(***************************************************************************)
(* C11: after initialization the registry is read-only.  No step of        *)
(* get_verifier, verify_signature, lookup, get_public_key, get_certificate *)
(* or a verifier constructor, whether it succeeds or raises, adds, removes *)
(* or replaces a registry entry: in every interleaving of two concurrent   *)
(* calls the registry is the one module initialization built, the          *)
(* descriptor each call obtained is the one that registry holds, and the   *)
(* outcome of each finished call is the outcome of the same call run       *)
(* alone against the same key manager, clock and backend.                  *)
(***************************************************************************)
ModuleInitLog == SubSeq(regLog, 1, Len(regLog) - regCount)
InitialRegistry == ApplyRegs(EmptyRegistry, ModuleInitLog, 1)
KeyTypeOf(c) ==
    c.image_properties.d[IF c.entry = "verify_signature" THEN OLD_KEY_TYPE ELSE KEY_TYPE]
Alone(c) ==
    IF c.entry = "get_verifier"
    THEN get_verifier(InitialRegistry, c.image_properties, c.kmResp, c.now,
                      c.backendResp)
    ELSE verify_signature(InitialRegistry, c.checksum_hash, c.image_properties,
                          c.kmResp, c.now, c.backendResp, c.verifyResp)

C11_RegistryReadOnlyUnderConcurrency ==
    /\ registry = InitialRegistry
    /\ \A c \in {Call, other} :
          /\ c.signature_key_type # NoDesc =>
                lookup(InitialRegistry, KeyTypeOf(c)) = Ok(c.signature_key_type)
          /\ c.pc = "done" => c.outcome = Alone(c)

\* verify_signature has returned True while a get_verifier call for the same
\* key type, started at the same time, is suspended between its lookup and its
\* constructor
C11_Witness ==
    /\ pc = "done" /\ entry = "verify_signature" /\ outcome = Ok(TRUE)
    /\ other.entry = "get_verifier" /\ other.pc = "create_verifier"
    /\ KeyTypeOf(Call) = KeyTypeOf(other)

====
